---------------------------- MODULE Spec2Model ----------------------------
(***************************************************************************)
(* Model of src/app.py: package the build-cache directories into one zip,  *)
(* split it with `zip -s` when it is larger than 49 MiB, upload every part *)
(* to the Telegram bot API and report the outcome.                         *)
(*                                                                         *)
(* The script is one sequential process; pc is its position.  Everything   *)
(* the script does that is visible from outside (HTTP posts, the zipfile   *)
(* pass, the split subprocess, the final rm -rf) is appended to log, in    *)
(* program order.  The environment (environment variables, which source    *)
(* paths exist, I/O errors, the archive's size, the exit status of the     *)
(* split tool, the HTTP outcomes) is chosen nondeterministically.          *)
(*                                                                         *)
(* Paths are kept relative, as the script writes them: a path is a         *)
(* directory (a sequence of components below the process's working         *)
(* directory) and a file name.  A subprocess started with cwd = d resolves *)
(* its path arguments below d.                                             *)
(***************************************************************************)
EXTENDS Integers, Sequences, FiniteSets, TLC

VARIABLES
    telegram_token,          \* os.environ.get("TELEGRAM_BOT_TOKEN")
    chat_id,                 \* os.environ.get("TELEGRAM_CHAT_ID")
    run_number,              \* os.environ.get("GITHUB_RUN_NUMBER")
    github_workspace,        \* os.environ.get("GITHUB_WORKSPACE")
    pc,                      \* position of the script
    exit_code,               \* process exit status, NotExited while running
    fs,                      \* files present in temp_packaging_dir
    packaged_files,          \* result of package_and_split_files
    all_uploads_successful,  \* flag of the upload loop
    idx,                     \* enumerate index i of the upload loop
    log                      \* externally visible events, in program order

vars == << telegram_token, chat_id, run_number, github_workspace, pc, exit_code,
           fs, packaged_files, all_uploads_successful, idx, log >>

-----------------------------------------------------------------------------
(* Bounds of the model *)

\* Size, in MiB, of the largest archive the environment produces.
MaxArchiveMB == 150

\* Largest number of bytes by which the split tool's output exceeds its input
\* (the local header, central directory and split signature it writes).
MaxOverhead == 2

-----------------------------------------------------------------------------
(* Configuration, lines 8-21 *)

MAX_TELEGRAM_CHUNK_MB == 49

MiB == 1024 * 1024

MAX_TELEGRAM_CHUNK_BYTES == MAX_TELEGRAM_CHUNK_MB * 1024 * 1024

\* os.environ.get returns None for a variable that is not set.
None == "<None>"

NotExited == 0 - 1

\* Python truthiness of an Optional[str]: None and "" are falsy.
Truthy(v) == v # None /\ v # ""

\* f"{v}" of an Optional[str]
Str(v) == IF v = None THEN "None" ELSE v

ConfigMissingAnd == ~Truthy(telegram_token) /\ ~Truthy(chat_id)

\* line 19: not telegram_token or not chat_id
ConfigMissing == ~Truthy(telegram_token) \/ ~Truthy(chat_id)

-----------------------------------------------------------------------------
(* Paths and names *)

temp_packaging_dir == << "telegram_package_temp" >>

\* line 138: f"full_build_env_{run_number}"
output_zip_name == << "full_build_env_", Str(run_number) >>

\* os.path.join(dir, f"{base}{stem}.{ext}"): stem is "" or "_part", ext the
\* extension as a sequence of one-character strings, so that it can be ordered.
Path(dir, base, stem, ext) == [dir |-> dir, base |-> base, stem |-> stem, ext |-> ext]

\* os.path.basename: the path without its directory
Basename(p) == [base |-> p.base, stem |-> p.stem, ext |-> p.ext]

\* What a process whose working directory is cwd opens for the relative path p.
Resolve(cwd, p) == [p EXCEPT !.dir = cwd \o p.dir]

ZipExt == << "z", "i", "p" >>

\* lines 126-136; line 129 raises TypeError when github_workspace is None
source_dirs_to_package ==
    << << "~", ".pub-cache" >>, << "~", ".gradle", "caches" >>,
       << "~", ".gradle", "wrapper" >>, << github_workspace, "android" >> >>

-----------------------------------------------------------------------------
(* Ordering of strings, as Python's sorted() compares them *)

\* The characters that occur in segment extensions, in code point order.
Alphabet == << "0", "1", "2", "3", "4", "5", "6", "7", "8", "9", "i", "p", "z" >>

Ord(c) == CHOOSE k \in 1..Len(Alphabet) : Alphabet[k] = c

RECURSIVE StrLess(_, _)
StrLess(a, b) ==
    IF a = << >> THEN b # << >>
    ELSE IF b = << >> THEN FALSE
    ELSE IF Head(a) = Head(b) THEN StrLess(Tail(a), Tail(b))
    ELSE Ord(Head(a)) < Ord(Head(b))

\* All paths the glob of line 110 returns share directory, base name and
\* stem: they are ordered by their extensions.
PathLess(p, q) == StrLess(p.ext, q.ext)

RECURSIVE Insert(_, _)
Insert(p, s) ==
    IF s = << >> THEN << p >>
    ELSE IF PathLess(p, Head(s)) THEN << p >> \o s
    ELSE << Head(s) >> \o Insert(p, Tail(s))

RECURSIVE sorted(_)
sorted(S) ==
    IF S = {} THEN << >>
    ELSE LET p == CHOOSE x \in S : TRUE IN Insert(p, sorted(S \ {p}))

\* glob.glob(os.path.join(dir, f"{base}_part.z*")) over the files in files
glob(files, dir, base) ==
    { p \in files : p.dir = dir /\ p.base = base /\ p.stem = "_part"
                    /\ p.ext # << >> /\ Head(p.ext) = "z" }

-----------------------------------------------------------------------------
(* The split tool: Info-ZIP `zip -s <n><unit> <out> <in>`, run by line 107 *)

\* Bytes in one unit of the -s argument.
UnitBytes(unit) ==
    CASE unit = "k" -> 1024
      [] unit = "m" -> MiB
      [] unit = "g" -> 1024 * MiB

SplitSizeBytes(s) == s.n * UnitBytes(s.unit)

RECURSIVE Digits(_)
Digits(n) ==
    IF n < 10 THEN << Alphabet[n + 1] >>
    ELSE Digits(n \div 10) \o << Alphabet[(n % 10) + 1] >>

\* Extension of the k-th segment: z01, z02, ..., z99, z100, ...
SegmentExt(k) == << "z" >> \o (IF k < 10 THEN << "0" >> ELSE << >>) \o Digits(k)

\* The files a split archive of nseg segments consists of: the numbered
\* segments and, last, the .zip that holds the central directory.
Segments(out, nseg) ==
    { [out EXCEPT !.ext = SegmentExt(k)] : k \in 1..(nseg - 1) } \cup { out }

\* The subprocess: cmd is the argument vector, cwd its working directory,
\* files the file system, in_size the size of the input archive.  tool_ok is
\* the environment's part: whether zip, given an input it can read, runs to
\* the end; overhead is the number of bytes its output adds to the input.
\* The tool opens its path arguments relative to cwd.  An input that is not
\* there makes it exit with status 12 ("nothing to do").
zip_split(cmd, cwd, files, in_size, tool_ok, overhead) ==
    LET inp  == Resolve(cwd, cmd.inp)
        out  == Resolve(cwd, cmd.out)
        seg  == SplitSizeBytes(cmd.s)
        nseg == (in_size + overhead + seg - 1) \div seg
    IN  IF inp \notin files THEN [rc |-> 12, fs |-> files]
        ELSE IF ~tool_ok THEN [rc |-> 15, fs |-> files]
        ELSE [rc |-> 0, fs |-> files \cup Segments(out, nseg)]

-----------------------------------------------------------------------------
(* package_and_split_files, lines 63-119 *)

\* line 70
full_zip_path(temp_dir, output_zip_base_name) ==
    Path(temp_dir, output_zip_base_name, "", ZipExt)

\* lines 99-105
split_command(temp_dir, output_zip_base_name) ==
    [ s   |-> [n |-> MAX_TELEGRAM_CHUNK_MB, unit |-> "m"],
      out |-> Path(temp_dir, output_zip_base_name, "_part", ZipExt),
      inp |-> full_zip_path(temp_dir, output_zip_base_name) ]

NeedsSplitGe(file_size, split_bytes) == file_size >= split_bytes

\* line 96
NeedsSplit(file_size, split_bytes) == file_size > split_bytes

ZipErrorFallsThrough(full) == << full >>

\* lines 88-90: except Exception: return []
ZipErrorResult(full) == << >>

SplitErrorFallsBack(full) == << full >>

\* lines 112-114: except subprocess.CalledProcessError: return []
SplitErrorResult(full) == << >>

\* An empty archive is the 22-byte end-of-central-directory record.
EmptyArchiveBytes == 22

ArchiveSizes ==
    { EmptyArchiveBytes, MAX_TELEGRAM_CHUNK_BYTES, MAX_TELEGRAM_CHUNK_BYTES + 1,
      MaxArchiveMB * MiB }

\* What the environment decides during one call: which source paths exist,
\* whether building the zip raises (and whether the file was created before
\* it did), the size of the archive, and the split tool's part.
PackagingEnvs(source_paths) ==
    { e \in [ existing  : SUBSET { source_paths[k] : k \in 1..Len(source_paths) },
              zip_ok    : BOOLEAN,
              created   : BOOLEAN,
              file_size : ArchiveSizes,
              tool_ok   : BOOLEAN,
              overhead  : 1..MaxOverhead ] :
        /\ e.existing = {} => e.file_size = EmptyArchiveBytes
        /\ e.zip_ok => e.created }

\* The call: the list returned (ret), the file system afterwards (fs) and the
\* events, in order.
package_and_split_files(temp_dir, output_zip_base_name, source_paths, split_bytes, files, e) ==
    LET full    == full_zip_path(temp_dir, output_zip_base_name)
        skipped == SelectSeq(source_paths, LAMBDA sp : sp \notin e.existing)
        zipped  == [ev |-> "zipfile", path |-> full, ok |-> e.zip_ok, skipped |-> skipped]
        fs1     == IF e.created THEN files \cup {full} ELSE files
        sized   == [ev |-> "getsize", path |-> full, size |-> e.file_size]
    IN  IF ~e.zip_ok
        THEN [ret |-> ZipErrorResult(full), fs |-> fs1, events |-> << zipped >>]
        ELSE IF NeedsSplit(e.file_size, split_bytes)
        THEN LET cmd == split_command(temp_dir, output_zip_base_name)
                 run == zip_split(cmd, temp_dir, fs1, e.file_size, e.tool_ok, e.overhead)
                 ran == [ev |-> "zip -s", cmd |-> cmd, cwd |-> temp_dir,
                         tool_ok |-> e.tool_ok, rc |-> run.rc]
             IN  IF run.rc # 0
                 THEN [ret |-> SplitErrorResult(full), fs |-> run.fs,
                       events |-> << zipped, sized, ran >>]
                 ELSE LET fs2 == run.fs \ {full}
                      IN  [ret |-> sorted(glob(fs2, temp_dir, output_zip_base_name)),
                           fs |-> fs2,
                           events |-> << zipped, sized, ran, [ev |-> "remove", path |-> full] >>]
        ELSE [ret |-> << full >>, fs |-> fs1, events |-> << zipped, sized >>]

-----------------------------------------------------------------------------
(* The notifier, lines 24-61 *)

StartText   == "Starting packaging and upload of build environment files..."
FailedText  == "Failed to package and split build environment files."
UploadText  == "Uploading packaged build environment in parts..."
SuccessText == "Successfully uploaded all packaged build environment files."
WarningText == "WARNING: Some packaged build environment files failed to upload."

\* requests.post(...) followed by raise_for_status(): a 2xx answer, a non-2xx
\* answer (HTTPError) or no answer (ConnectionError, Timeout).
MsgOutcomes == { "ok", "http_error", "transport_error" }

\* For sendDocument a 2xx answer carries a JSON body whose "ok" may be false.
DocOutcomes == { "ok", "not_ok", "http_error", "transport_error" }

\* exit(code)
Exit(code) == pc' = "exit" /\ exit_code' = code

send_telegram_message_swallow(text, outcome, next) ==
    /\ log' = Append(log, [ev |-> "sendMessage", text |-> text, chat_id |-> chat_id,
                           outcome |-> outcome])
    /\ pc' = next /\ exit_code' = exit_code

\* lines 24-34: one POST; any RequestException ends the process with status 1.
\* next is where the caller continues when the function returns.
send_telegram_message(text, outcome, next) ==
    /\ log' = Append(log, [ev |-> "sendMessage", text |-> text, chat_id |-> chat_id,
                           outcome |-> outcome])
    /\ IF outcome = "ok" THEN pc' = next /\ exit_code' = exit_code ELSE Exit(1)

\* lines 36-61: the call's event and the value returned.  Without the file
\* nothing is posted.
send_telegram_document(file_path, caption, files, outcome) ==
    LET posted == file_path \in files
        result == posted /\ outcome = "ok"
    IN  [ev |-> "sendDocument", file_path |-> file_path, caption |-> caption,
         chat_id |-> chat_id, posted |-> posted,
         outcome |-> IF posted THEN outcome ELSE "not_found", result |-> result]

-----------------------------------------------------------------------------
(* Main execution, lines 14-21 and 122-168 *)

Init ==
    /\ telegram_token \in { None, "", "123:abc" }
    /\ chat_id \in { None, "", "-1001" }
    /\ run_number \in { None, "7" }
    /\ github_workspace \in { None, "/home/runner/work/app" }
    /\ pc = "config"
    /\ exit_code = NotExited
    /\ fs = {}
    /\ packaged_files = << >>
    /\ all_uploads_successful = TRUE
    /\ idx = 0
    /\ log = << >>

\* lines 19-21
ConfigCheck ==
    /\ pc = "config"
    /\ IF ConfigMissing THEN Exit(1) ELSE pc' = "start" /\ exit_code' = exit_code
    /\ UNCHANGED << telegram_token, chat_id, run_number, github_workspace, fs,
                    packaged_files, all_uploads_successful, idx, log >>

\* line 122
StartMessage ==
    /\ pc = "start"
    /\ \E o \in MsgOutcomes : send_telegram_message(StartText, o, "paths")
    /\ UNCHANGED << telegram_token, chat_id, run_number, github_workspace, fs,
                    packaged_files, all_uploads_successful, idx >>

\* lines 124-138: os.path.join(None, "android") raises TypeError, which nothing
\* catches: the interpreter prints the traceback and exits with status 1.
BuildPaths ==
    /\ pc = "paths"
    /\ IF github_workspace = None
       THEN Exit(1) /\ log' = Append(log, [ev |-> "traceback", error |-> "TypeError"])
       ELSE pc' = "package" /\ exit_code' = exit_code /\ log' = log
    /\ UNCHANGED << telegram_token, chat_id, run_number, github_workspace, fs,
                    packaged_files, all_uploads_successful, idx >>

\* lines 140-145
PackageAndSplit ==
    /\ pc = "package"
    /\ \E e \in PackagingEnvs(source_dirs_to_package) :
         LET r == package_and_split_files(temp_packaging_dir, output_zip_name,
                      source_dirs_to_package, MAX_TELEGRAM_CHUNK_BYTES, fs, e)
         IN  /\ packaged_files' = r.ret
             /\ fs' = r.fs
             /\ log' = log \o r.events
    /\ pc' = "packaged"
    /\ UNCHANGED << telegram_token, chat_id, run_number, github_workspace, exit_code,
                    all_uploads_successful, idx >>

PackagingFailedSilent ==
    /\ pc = "packaged"
    /\ packaged_files = << >>
    /\ pc' = "exit_1"
    /\ UNCHANGED << telegram_token, chat_id, run_number, github_workspace, exit_code, fs,
                    packaged_files, all_uploads_successful, idx, log >>

\* lines 147-148
PackagingFailedMessage ==
    /\ pc = "packaged"
    /\ packaged_files = << >>
    /\ \E o \in MsgOutcomes : send_telegram_message(FailedText, o, "exit_1")
    /\ UNCHANGED << telegram_token, chat_id, run_number, github_workspace, fs,
                    packaged_files, all_uploads_successful, idx >>

\* line 149
PackagingFailedExit ==
    /\ pc = "exit_1"
    /\ Exit(1)
    /\ UNCHANGED << telegram_token, chat_id, run_number, github_workspace, fs,
                    packaged_files, all_uploads_successful, idx, log >>

\* lines 152-153
UploadMessage ==
    /\ pc = "packaged"
    /\ packaged_files # << >>
    /\ \E o \in MsgOutcomes : send_telegram_message(UploadText, o, "loop")
    /\ all_uploads_successful' = TRUE
    /\ idx' = 0
    /\ UNCHANGED << telegram_token, chat_id, run_number, github_workspace, fs,
                    packaged_files >>

caption_text_from_zero(i, file_path) ==
    << "Build Env (", Str(run_number), ") Part ", i, "/", Len(packaged_files), ": ",
       Basename(file_path) >>

\* line 155, the pieces of the f-string in order; i is enumerate's index
caption_text(i, file_path) ==
    << "Build Env (", Str(run_number), ") Part ", i + 1, "/", Len(packaged_files), ": ",
       Basename(file_path) >>

FlagAfterUploadKept(flag, result) == flag

\* lines 156-157
FlagAfterUpload(flag, result) == IF result THEN flag ELSE FALSE

\* lines 154-158: one iteration of the loop, and the loop's end
UploadPart ==
    /\ pc = "loop"
    /\ idx < Len(packaged_files)
    /\ \E o \in DocOutcomes :
         LET file_path == packaged_files[idx + 1]
             call == send_telegram_document(file_path, caption_text(idx, file_path), fs, o)
         IN  /\ log' = Append(log, call)
             /\ all_uploads_successful' = FlagAfterUpload(all_uploads_successful, call.result)
             /\ IF ~call.result
                THEN pc' = "final" /\ idx' = idx
                ELSE /\ idx' = idx + 1
                     /\ pc' = IF idx + 1 < Len(packaged_files) THEN "loop" ELSE "final"
    /\ UNCHANGED << telegram_token, chat_id, run_number, github_workspace, exit_code, fs,
                    packaged_files >>

\* lines 160-163
FinalMessage ==
    /\ pc = "final"
    /\ \E o \in MsgOutcomes :
         send_telegram_message(IF all_uploads_successful THEN SuccessText ELSE WarningText,
                               o, "cleanup")
    /\ UNCHANGED << telegram_token, chat_id, run_number, github_workspace, fs,
                    packaged_files, all_uploads_successful, idx >>

\* lines 166-168; the script ends and the interpreter exits with status 0
Cleanup ==
    /\ pc = "cleanup"
    /\ log' = Append(log, [ev |-> "rm -rf", path |-> temp_packaging_dir])
    /\ fs' = { f \in fs : SubSeq(f.dir, 1, Len(temp_packaging_dir)) # temp_packaging_dir }
    /\ Exit(0)
    /\ UNCHANGED << telegram_token, chat_id, run_number, github_workspace,
                    packaged_files, all_uploads_successful, idx >>

Next ==
    \/ ConfigCheck
    \/ StartMessage
    \/ BuildPaths
    \/ PackageAndSplit
    \/ PackagingFailedMessage
    \/ PackagingFailedExit
    \/ UploadMessage
    \/ UploadPart
    \/ FinalMessage
    \/ Cleanup

Spec == Init /\ [][Next]_vars

-----------------------------------------------------------------------------
(* Reading the log *)

Positions(kind) == { j \in 1..Len(log) : log[j].ev = kind }

Events(kind) == SelectSeq(log, LAMBDA e : e.ev = kind)

Msgs == Events("sendMessage")

Docs == Events("sendDocument")

Exited == pc = "exit"

\* package_and_split_files has returned: its first event is the zipfile pass.
Returned == Positions("zipfile") # {}

ArchiveCreated == \E j \in Positions("zipfile") : log[j].ok

SplitFailed == \E j \in Positions("zip -s") : log[j].rc # 0

AllMessagesSent == \A j \in Positions("sendMessage") : log[j].outcome = "ok"

FullZip == full_zip_path(temp_packaging_dir, output_zip_name)

-----------------------------------------------------------------------------
(* Claims *)

C2_CleanupAlwaysAttempted ==
    (Exited /\ ~ConfigMissing) => Positions("rm -rf") # {}

\* C3: with the bot token or the chat identifier absent or empty, the process
\* does nothing but exit with status 1: no message, no document, no archive,
\* no split.
C3_NoWorkWithoutCredentials ==
    (~Truthy(telegram_token) \/ ~Truthy(chat_id)) =>
        /\ log = << >>
        /\ fs = {}
        /\ packaged_files = << >>
        /\ pc \in { "config", "exit" }
        /\ Exited => exit_code = 1

C3_Witness ==
    /\ Truthy(telegram_token) /\ ~Truthy(chat_id)
    /\ Exited /\ exit_code = 1

\* C4 as stated: the list package_and_split_files returns is non-empty if and
\* only if archive creation succeeded.
C4_NonEmptyIffArchived ==
    Returned => ((packaged_files # << >>) <=> ArchiveCreated)

\* C4 amended: the list is non-empty only if archive creation succeeded; it is
\* non-empty when archive creation succeeded and the archive is at or below
\* the threshold; it is empty when archive creation raised or the split tool
\* exited non-zero.
C4_NonEmptyOnlyIfArchived ==
    Returned =>
        /\ packaged_files # << >> => ArchiveCreated
        /\ (ArchiveCreated /\ \E j \in Positions("getsize") :
                                 log[j].size <= MAX_TELEGRAM_CHUNK_BYTES)
              => packaged_files # << >>
        /\ (~ArchiveCreated \/ SplitFailed) => packaged_files = << >>

C4_Witness ==
    /\ Returned /\ ArchiveCreated /\ SplitFailed
    /\ packaged_files = << >>
    /\ pc = "packaged"

\* C5: a failed send_telegram_message call is the last thing the process
\* does: it is not retried, nothing follows it, and the process has exited
\* with a non-zero status.
C5_MessageFailureIsFatal ==
    \A j \in Positions("sendMessage") :
       log[j].outcome # "ok" =>
          /\ j = Len(log)
          /\ Exited
          /\ exit_code # 0 /\ exit_code # NotExited

C5_Witness ==
    \E j \in Positions("sendMessage") :
       /\ log[j].outcome = "transport_error"
       /\ log[j].text = UploadText
       /\ Exited

\* C6: with the configuration present and every message sent, the process
\* does not exit without having sent a terminal status message (success,
\* partial-failure warning or packaging failure).
C6_TerminalMessageBeforeExit ==
    (/\ Exited
     /\ Truthy(telegram_token) /\ Truthy(chat_id) /\ github_workspace # None
     /\ AllMessagesSent)
        => \E j \in Positions("sendMessage") :
              log[j].text \in { SuccessText, WarningText, FailedText }

C6_Witness ==
    /\ Exited /\ AllMessagesSent
    /\ SplitFailed
    /\ \E j \in Positions("sendMessage") : log[j].text = FailedText

C8_SplitYieldsOrderedParts ==
    \A j \in Positions("zip -s") :
       log[j].tool_ok =>
          /\ log[j].rc = 0
          /\ SplitSizeBytes(log[j].cmd.s) = MAX_TELEGRAM_CHUNK_BYTES
          /\ Len(packaged_files) >= 2
          /\ \A k \in 1..Len(packaged_files) :
               packaged_files[k].ext =
                  IF k < Len(packaged_files) THEN SegmentExt(k) ELSE ZipExt
          /\ FullZip \notin fs

\* C9: an archive at or below the threshold is returned as the one-element
\* list of its own path, the split tool is not run, and the archive stays
\* where it is (until the final cleanup).
C9_NoSplitAtOrBelowThreshold ==
    \A j \in Positions("getsize") :
       log[j].size <= MAX_TELEGRAM_CHUNK_BYTES =>
          /\ packaged_files = << FullZip >>
          /\ Positions("zip -s") = {}
          /\ Positions("remove") = {}
          /\ Positions("rm -rf") = {} => FullZip \in fs

C9_Witness ==
    /\ \E j \in Positions("getsize") : log[j].size = MAX_TELEGRAM_CHUNK_BYTES
    /\ packaged_files = << FullZip >>
    /\ pc = "packaged"

\* C10: when the split tool exits non-zero the list returned is empty, no
\* document is ever uploaded, the next message is the packaging-failure
\* message, and the process exits with status 1.
C10_SplitFailureAborts ==
    \A j \in Positions("zip -s") :
       log[j].rc # 0 =>
          /\ packaged_files = << >>
          /\ Positions("sendDocument") = {}
          /\ pc \in { "packaged", "exit_1", "exit" }
          /\ j < Len(log) => log[j + 1].ev = "sendMessage" /\ log[j + 1].text = FailedText
          /\ Len(log) <= j + 1
          /\ Exited => (exit_code = 1 /\ j < Len(log))

C10_Witness ==
    /\ SplitFailed
    /\ Exited /\ exit_code = 1
    /\ log[Len(log)].text = FailedText /\ log[Len(log)].outcome = "ok"

=============================================================================
